---- MODULE Spec2Model ----
(***************************************************************************)
(* A model of md.py, the MediathekViewWeb search-and-download client.      *)
(*                                                                         *)
(* Python strings are sequences of one-character strings, so that the      *)
(* regular expressions, int(), str.lower() and the string ordering used by *)
(* sorted() are computed on the characters.  A Python value that may be    *)
(* None is a record [isNone, s].  A search hit (video_info) is a record of *)
(* the fields the program reads, plus the fields it writes (season,        *)
(* episode, video_type).                                                   *)
(***************************************************************************)
EXTENDS Integers, Sequences, FiniteSets, TLC

VARIABLES
    pc,                  \* where the run is
    scenario,            \* the environment of this run: what the index holds
    quality,             \* argument of search_and_download_all
    download_subtitles,  \* argument of search_and_download_all
    all_results,         \* query_api: accumulated hits
    offset,              \* query_api: offset of the next request
    api_status,          \* status code of the last search response (0: none yet)
    topics,              \* select_topic: sorted distinct topics
    filtered_results,    \* search_and_download_all: the records being narrowed
    topic,               \* search_and_download_all: the selected topic
    seasons,             \* select_season: the dict, as its items in insertion order
    choice,              \* the last line read by input()
    i,                   \* download_all_videos: loop index
    video_url,           \* download_all_videos: resolved URL of record i
    file_extension,      \* download_all_videos: resolved extension of record i
    http_status,         \* status code of the last download response (0: none yet)
    log,                 \* the download requests issued, in order
    files                \* the file paths written

vars == <<pc, scenario, quality, download_subtitles, all_results, offset,
          api_status, topics, filtered_results, topic, seasons, choice, i,
          video_url, file_extension, http_status, log, files>>

----------------------------------------------------------------------------
(* Bounds *)

\* the most records the index returns over all pages of one search
MaxRecords == 3

----------------------------------------------------------------------------
(* Characters and strings *)

\* the printable ASCII characters in code-point order, 32 (space) to 126 (~);
\* the grave accent (96) cannot be written in a string here and is left out
Printable ==
    <<" ", "!", "\"", "#", "$", "%", "&", "'", "(", ")", "*", "+", ",", "-", ".", "/",
      "0", "1", "2", "3", "4", "5", "6", "7", "8", "9", ":", ";", "<", "=", ">", "?",
      "@", "A", "B", "C", "D", "E", "F", "G", "H", "I", "J", "K", "L", "M", "N", "O",
      "P", "Q", "R", "S", "T", "U", "V", "W", "X", "Y", "Z", "[", "\\", "]", "^", "_",
      "(grave)", "a", "b", "c", "d", "e", "f", "g", "h", "i", "j", "k", "l", "m", "n", "o",
      "p", "q", "r", "s", "t", "u", "v", "w", "x", "y", "z", "{", "|", "}", "~">>

\* the code point of each character
CodePoint == [c \in {Printable[k] : k \in 1..Len(Printable)} |->
                31 + (CHOOSE k \in 1..Len(Printable) : Printable[k] = c)]

\* ord(c)
Ord(c) == CodePoint[c]

\* chr(n)
Chr(n) == Printable[n - 31]

IsDigit(c) == Ord(c) >= 48 /\ Ord(c) <= 57

IsUpper(c) == Ord(c) >= 65 /\ Ord(c) <= 90

IsAlnum(c) == IsDigit(c) \/ IsUpper(c) \/ (Ord(c) >= 97 /\ Ord(c) <= 122)

DigitVal(c) == Ord(c) - 48

\* str.lower()
Lower(s) == [k \in 1..Len(s) |-> IF IsUpper(s[k]) THEN Chr(Ord(s[k]) + 32) ELSE s[k]]

\* s < t for Python strings: by code point, a proper prefix first
RECURSIVE StrLess(_, _)
StrLess(s, t) ==
    IF t = <<>> THEN FALSE
    ELSE IF s = <<>> THEN TRUE
    ELSE IF Ord(Head(s)) # Ord(Head(t)) THEN Ord(Head(s)) < Ord(Head(t))
    ELSE StrLess(Tail(s), Tail(t))

\* the value of a string of decimal digits
RECURSIVE DigitsValue(_)
DigitsValue(s) ==
    IF s = <<>> THEN 0
    ELSE 10 * DigitsValue(SubSeq(s, 1, Len(s) - 1)) + DigitVal(s[Len(s)])

\* str.strip() of blanks
RECURSIVE Strip(_)
Strip(s) ==
    IF s = <<>> THEN s
    ELSE IF Head(s) = " " THEN Strip(Tail(s))
    ELSE IF s[Len(s)] = " " THEN Strip(SubSeq(s, 1, Len(s) - 1))
    ELSE s

\* int(s) of a string: blanks stripped, an optional sign, then digits, which
\* single underscores may separate; anything else raises ValueError (ok = FALSE)
PyInt(s) ==
    LET t    == Strip(s)
        sgn  == t # <<>> /\ Head(t) \in {"+", "-"}
        body == IF sgn THEN Tail(t) ELSE t
        good == /\ body # <<>>
                /\ \A k \in 1..Len(body) : IsDigit(body[k]) \/ body[k] = "_"
                /\ IsDigit(body[1]) /\ IsDigit(body[Len(body)])
                /\ \A k \in 1..(Len(body) - 1) : ~(body[k] = "_" /\ body[k + 1] = "_")
        digs == SelectSeq(body, IsDigit)
        mag  == DigitsValue(digs)
    IN  IF good
        THEN [ok |-> TRUE, val |-> IF sgn /\ Head(t) = "-" THEN 0 - mag ELSE mag]
        ELSE [ok |-> FALSE, val |-> 0]

\* the decimal digits of n >= 0
RECURSIVE Decimal(_)
Decimal(n) == IF n < 10 THEN <<Chr(48 + n)>> ELSE Decimal(n \div 10) \o <<Chr(48 + (n % 10))>>

\* f"{n:02d}" of n >= 0
Format02d(n) == IF n < 10 THEN <<"0">> \o Decimal(n) ELSE Decimal(n)

----------------------------------------------------------------------------
(* Python values *)

None == [isNone |-> TRUE, s |-> <<>>]

Str(s) == [isNone |-> FALSE, s |-> s]

\* bool(v) of None or a string
Truthy(v) == ~v.isNone /\ v.s # <<>>

Range(f) == {f[k] : k \in DOMAIN f}

----------------------------------------------------------------------------
(* Regular expressions *)

\* the last index of the run of digits of s that starts at k (k - 1: no digit at k)
RECURSIVE DigitRunEnd(_, _)
DigitRunEnd(s, k) ==
    IF k <= Len(s) /\ IsDigit(s[k]) THEN DigitRunEnd(s, k + 1) ELSE k - 1

\* S(\d+)\/E(\d+) matches s at k.  \d+ takes the whole run of digits: a shorter
\* one is followed by a digit, never by "/"
EpisodeCodeAt(s, k) ==
    /\ k <= Len(s)
    /\ s[k] = "S"
    /\ LET j == DigitRunEnd(s, k + 1)
       IN  /\ j >= k + 1
           /\ j + 3 <= Len(s)
           /\ s[j + 1] = "/"
           /\ s[j + 2] = "E"
           /\ IsDigit(s[j + 3])

\* re.search(r"S(\d+)\/E(\d+)", s): the leftmost k >= from where it matches, 0: None
RECURSIVE SearchEpisodeCode(_, _)
SearchEpisodeCode(s, from) ==
    IF from > Len(s) THEN 0
    ELSE IF EpisodeCodeAt(s, from) THEN from
    ELSE SearchEpisodeCode(s, from + 1)

\* match.group(1) and match.group(2) of the match at k
EpisodeCodeGroups(s, k) ==
    LET j == DigitRunEnd(s, k + 1)
    IN  [season  |-> SubSeq(s, k + 1, j),
         episode |-> SubSeq(s, j + 3, DigitRunEnd(s, j + 3))]

\* re.search(r"\.([a-zA-Z0-9]+)(?:$)", s): the leftmost dot that only letters and
\* digits, and at least one, follow to the end of s; 0: None
RECURSIVE SearchExtension(_, _)
SearchExtension(s, from) ==
    IF from > Len(s) THEN 0
    ELSE IF /\ s[from] = "."
            /\ from < Len(s)
            /\ \A k \in (from + 1)..Len(s) : IsAlnum(s[k])
         THEN from
    ELSE SearchExtension(s, from + 1)

\* the file extension of a URL, or the default when the URL is falsy or has none
FileExtension(url, default) ==
    IF ~Truthy(url) THEN default
    ELSE LET k == SearchExtension(url.s, 1)
         IN  IF k = 0 THEN default ELSE SubSeq(url.s, k, Len(url.s))

----------------------------------------------------------------------------
(* The pure functions of md.py *)

VIDEO_TYPE_EPISODE == "episode"

VIDEO_TYPE_MOVIE == "movie"

quality_map == [low |-> "url_video_low", medium |-> "url_video", hd |-> "url_video_hd"]

\* FallbackOrder with the fallback from the worst tier up
FallbackOrder_LowFirst == <<"url_video_low", "url_video", "url_video_hd">>

\* the keys tried, in order, when the requested tier has no URL
FallbackOrder == <<"url_video_hd", "url_video", "url_video_low">>

\* the for loop of get_video_url_by_quality: the first truthy URL, and the value
\* of the last key when there is none
RECURSIVE FallbackUrl(_, _)
FallbackUrl(video_info, keys) ==
    IF Len(keys) = 1 \/ Truthy(video_info[Head(keys)])
    THEN video_info[Head(keys)]
    ELSE FallbackUrl(video_info, Tail(keys))

get_video_url_by_quality(video_info, q) ==
    LET tier  == IF q \in DOMAIN quality_map THEN q ELSE "medium"
        first == video_info[quality_map[tier]]
        url   == IF Truthy(first) THEN first ELSE FallbackUrl(video_info, FallbackOrder)
    IN  [url |-> url, ext |-> FileExtension(url, <<".", "m", "p", "4">>)]

get_subtitle_url(video_info) ==
    [url |-> video_info.url_subtitle,
     ext |-> FileExtension(video_info.url_subtitle, <<".", "s", "r", "t">>)]

\* SortedStrings with the order reversed
RECURSIVE SortedStrings_Descending(_)
SortedStrings_Descending(S) ==
    IF S = {} THEN <<>>
    ELSE LET m == CHOOSE t \in S : \A u \in S \ {t} : StrLess(u, t)
         IN  <<m>> \o SortedStrings_Descending(S \ {m})

\* sorted(topics) of the set of the truthy topics of the results
RECURSIVE SortedStrings(_)
SortedStrings(S) ==
    IF S = {} THEN <<>>
    ELSE LET m == CHOOSE t \in S : \A u \in S \ {t} : StrLess(t, u)
         IN  <<m>> \o SortedStrings(S \ {m})

TopicsOf(results) ==
    SortedStrings({results[k].topic.s : k \in {n \in DOMAIN results : Truthy(results[n].topic)}})

determine_season_and_episode(results) ==
    [k \in DOMAIN results |->
        LET m == SearchEpisodeCode(results[k].title, 1)
        IN  IF m # 0
            THEN [results[k] EXCEPT !.season  = Str(EpisodeCodeGroups(results[k].title, m).season),
                                    !.episode = Str(EpisodeCodeGroups(results[k].title, m).episode)]
            ELSE [results[k] EXCEPT !.season = None, !.episode = None]]

valueOrElse(value, default) ==
    IF value.isNone THEN default
    ELSE IF PyInt(value.s).ok THEN PyInt(value.s).val
    ELSE default

\* a < b for tuples of two integers
KeyLess(a, b) == a[1] < b[1] \/ (a[1] = b[1] /\ a[2] < b[2])

\* sorted(items, key=...) of items [key, val]: stable, an item goes after the
\* items whose key is not greater
RECURSIVE InsertByKey(_, _)
InsertByKey(sorted, x) ==
    IF sorted = <<>> THEN <<x>>
    ELSE IF KeyLess(x.key, sorted[Len(sorted)].key)
         THEN InsertByKey(SubSeq(sorted, 1, Len(sorted) - 1), x) \o <<sorted[Len(sorted)]>>
    ELSE sorted \o <<x>>

RECURSIVE SortedByKey(_)
SortedByKey(items) ==
    IF items = <<>> THEN <<>>
    ELSE InsertByKey(SortedByKey(SubSeq(items, 1, Len(items) - 1)), items[Len(items)])

\* SeasonEpisodeKey without the episode
SeasonEpisodeKey_SeasonOnly(x) == <<valueOrElse(x.season, 0), 0>>

\* the sort key of a record
SeasonEpisodeKey(x) == <<valueOrElse(x.season, 0), valueOrElse(x.episode, 0)>>

sort_seasons_by_season_and_episode(results) ==
    LET items  == [k \in DOMAIN results |-> [key |-> SeasonEpisodeKey(results[k]), val |-> results[k]]]
        sorted == SortedByKey(items)
    IN  [k \in DOMAIN sorted |-> sorted[k].val]

\* SortedSeasonKeys with the keys compared as strings, None as the empty string
SortedSeasonKeys_AsStrings(keys) ==
    LET Before(a, b) == StrLess(a.s, b.s)
    IN  SortSeq(keys, Before)

\* sorted(seasons.keys(), key=lambda s: valueOrElse(s, 0))
SortedSeasonKeys(keys) ==
    LET items  == [k \in DOMAIN keys |-> [key |-> <<valueOrElse(keys[k], 0), 0>>, val |-> keys[k]]]
        sorted == SortedByKey(items)
    IN  [k \in DOMAIN sorted |-> sorted[k].val]

\* the dict seasons, as the sequence of its items [key, videos] in insertion order
RECURSIVE GroupBySeason(_, _)
GroupBySeason(results, acc) ==
    IF results = <<>> THEN acc
    ELSE LET r    == Head(results)
             here == {k \in DOMAIN acc : acc[k].key = r.season}
         IN  IF here = {}
             THEN GroupBySeason(Tail(results), Append(acc, [key |-> r.season, videos |-> <<r>>]))
             ELSE GroupBySeason(Tail(results),
                     [k \in DOMAIN acc |->
                        IF k \in here THEN [acc[k] EXCEPT !.videos = Append(@, r)] ELSE acc[k]])

\* [video for season in seasons.values() for video in season]
RECURSIVE AllVideos(_)
AllVideos(items) ==
    IF items = <<>> THEN <<>> ELSE Head(items).videos \o AllVideos(Tail(items))

\* seasons[key]
SeasonVideos(items, key) ==
    items[CHOOSE k \in DOMAIN items : items[k].key = key].videos

update_video_type(results) ==
    [k \in DOMAIN results |->
        [results[k] EXCEPT !.video_type =
            IF SearchEpisodeCode(results[k].title, 1) # 0
            THEN VIDEO_TYPE_EPISODE ELSE VIDEO_TYPE_MOVIE]]

is_topic_is_series(results) ==
    \E k \in DOMAIN results : SearchEpisodeCode(results[k].title, 1) # 0

\* os.path.join(a, b)
PathJoin(a, b) ==
    IF b # <<>> /\ Head(b) = "/" THEN b
    ELSE IF a = <<>> \/ a[Len(a)] = "/" THEN a \o b
    ELSE a \o <<"/">> \o b

\* what open(filepath, "wb") may do.  The outcome is the file system's, which the
\* run neither sets up below the download folder nor inspects: the file is
\* written when its directory exists (a file name without a slash in the folder
\* os.makedirs made, "./B", "../B", "A/B" when the folder already holds A, an
\* absolute name) and the name is free, and open() raises when the directory is
\* missing ("A/B" in a fresh folder), the name is that of a directory or too
\* long, or writing is not permitted.  Nothing catches the exception.
OpenOutcomes == {"written", "raises"}

\* what os.makedirs(download_folder, exist_ok=True) may do, as the file system
\* decides: the folder is made or is already there, or makedirs raises (the
\* path or a parent of it is a file, or creating it is not permitted).  Nothing
\* catches the exception.
MakedirsOutcomes == {"made", "raises"}

\* filename_base of download_all_videos
FilenameBase(title, video_info) ==
    IF video_info.video_type = VIDEO_TYPE_EPISODE
    THEN title \o <<" ", "S">> \o Format02d(PyInt(video_info.season.s).val)
               \o <<"E">> \o Format02d(PyInt(video_info.episode.s).val)
    ELSE title

----------------------------------------------------------------------------
(* The environment: what the index holds, what the user passes and types *)

\* a search hit as the API returns it; season, episode and video_type are the
\* keys the program adds (None and "": not set yet)
Hit(title, tp, low, medium, hd, subtitle) ==
    [title |-> title, topic |-> tp,
     url_video_low |-> low, url_video |-> medium, url_video_hd |-> hd,
     url_subtitle |-> subtitle,
     season |-> None, episode |-> None, video_type |-> ""]

UrlLow == Str(<<"l", ".", "m", "p", "4">>)

UrlMedium == Str(<<"m", ".", "w", "e", "b", "m">>)

\* a URL without a file extension
UrlHd == Str(<<"h", ".", "d", "/", "v">>)

UrlSubtitle == Str(<<"s", ".", "v", "t", "t">>)

TopicA == Str(<<"A">>)

TitleS1E1 == <<"S", "1", "/", "E", "1">>

TitlePlain == <<"x">>

\* hits that differ in their topic: absent, empty, and three names of which one
\* is a prefix of another; and a second hit of topic A, without episode code
TopicPool ==
    {Hit(TitleS1E1, tp, None, UrlMedium, None, None) :
        tp \in {None, Str(<<>>), TopicA, Str(<<"B">>), Str(<<"A", "B">>)}}
    \cup {Hit(TitlePlain, TopicA, None, UrlMedium, None, None)}

\* hits of one topic that differ in their title: no episode code, season 0,
\* two spellings of a season and of an episode, numbers of two digits
SeasonPool ==
    {Hit(t, TopicA, None, UrlMedium, None, None) :
        t \in {TitlePlain,
               <<"S", "0", "/", "E", "0">>,
               <<"S", "2", "/", "E", "2">>,
               <<"a", "S", "2", "/", "E", "0", "2", "b">>,
               <<"S", "0", "2", "/", "E", "1">>,
               <<"S", "1", "0", "/", "E", "1">>,
               <<"S", "2", "/", "E", "1", "0">>}}

\* a topic that holds a slash: the file name names a directory below the folder
TopicSlash == Str(<<"A", "/", "B">>)

\* hits of a topic that holds a slash, with and without subtitle
PathPool ==
    {Hit(TitleS1E1, TopicSlash, None, UrlMedium, None, sub) : sub \in {None, UrlSubtitle}}

\* hits of one topic and one episode that differ in the URLs they have
DownloadPool ==
    {Hit(TitleS1E1, TopicA, u[1], u[2], u[3], sub) :
        u \in {<<None, None, None>>,
               <<UrlLow, None, None>>,
               <<None, Str(<<>>), UrlHd>>,
               <<UrlLow, UrlMedium, UrlHd>>},
        sub \in {None, UrlSubtitle}}

\* every combination of absent, empty and present tier URLs
ResolvePool ==
    {Hit(TitleS1E1, TopicA, low, medium, hd, None) :
        low \in {None, Str(<<>>), UrlLow},
        medium \in {None, Str(<<>>), UrlMedium},
        hd \in {None, Str(<<>>), UrlHd}}

Pool(sc) ==
    CASE sc = "topics"    -> TopicPool
      [] sc = "seasons"   -> SeasonPool
      [] sc = "downloads" -> DownloadPool
      [] sc = "paths"     -> PathPool
      [] OTHER            -> ResolvePool

\* the sequences over S of length at most n
SeqsUpTo(S, n) == UNION {[1..k -> S] : k \in 0..n}

\* the lines the user types at a prompt
InputLines ==
    {Decimal(n) : n \in 0..(MaxRecords + 1)}
    \cup {<<>>, <<"y">>, <<"Y">>, <<"x">>, <<" ", "2">>, <<"-", "1">>, <<"1", ".", "5">>}

\* the folder argument
DownloadFolder == <<"d", "l">>

\* size of query_api
size == 100

----------------------------------------------------------------------------
(* The run of search_and_download_all *)

\* the local variables of the functions that have not been entered or have returned
NoLocals ==
    /\ offset = 0
    /\ topics = <<>>
    /\ seasons = <<>>
    /\ choice = None
    /\ i = 0
    /\ video_url = None
    /\ file_extension = <<>>

Init ==
    /\ pc = "query_api"
    /\ scenario \in {"topics", "seasons", "downloads", "paths"}
    /\ IF scenario = "paths"
       THEN quality = "hd" /\ download_subtitles = TRUE
       ELSE IF scenario = "downloads"
       THEN \E arguments \in {<<"low", TRUE>>, <<"medium", FALSE>>, <<"hd", TRUE>>} :
               quality = arguments[1] /\ download_subtitles = arguments[2]
       ELSE quality = "medium" /\ download_subtitles = FALSE
    /\ all_results = <<>>
    /\ api_status = 0
    /\ filtered_results = <<>>
    /\ topic = None
    /\ http_status = 0
    /\ log = <<>>
    /\ files = {}
    /\ NoLocals

\* what the API may answer when the index has n more hits: an error, or a page
Responses(n) ==
    {[status |-> 500, results |-> <<>>]}
    \cup {[status |-> 200, results |-> page] : page \in SeqsUpTo(Pool(scenario), n)}

\* QueryApiRequest with a failed request tried again
QueryApiRequest_Retry ==
    /\ pc = "query_api"
    /\ \E response \in Responses(MaxRecords - Len(all_results)) :
          /\ api_status' = response.status
          /\ IF response.status = 200 /\ response.results = <<>>
             THEN /\ pc' = "query_returned"
                  /\ offset' = 0
                  /\ UNCHANGED all_results
             ELSE /\ pc' = "query_api"
                  /\ all_results' = all_results \o response.results
                  /\ offset' = IF response.status = 200 THEN offset + size ELSE offset
    /\ UNCHANGED <<scenario, quality, download_subtitles, topics, filtered_results,
                   topic, seasons, choice, i, video_url, file_extension,
                   http_status, log, files>>

\* one iteration of the while loop of query_api: one request; an error or an
\* empty page ends the loop and query_api returns all_results
QueryApiRequest ==
    /\ pc = "query_api"
    /\ \E response \in Responses(MaxRecords - Len(all_results)) :
          /\ api_status' = response.status
          /\ IF response.status # 200 \/ response.results = <<>>
             THEN /\ pc' = "query_returned"
                  /\ offset' = 0
                  /\ UNCHANGED all_results
             ELSE /\ pc' = "query_api"
                  /\ all_results' = all_results \o response.results
                  /\ offset' = offset + size
    /\ UNCHANGED <<scenario, quality, download_subtitles, topics, filtered_results,
                   topic, seasons, choice, i, video_url, file_extension,
                   http_status, log, files>>

\* search_and_download_all after query_api: exit(1) when there are no results
CheckResults ==
    /\ pc = "query_returned"
    /\ pc' = IF all_results = <<>> THEN "exit1" ELSE "select_topic"
    /\ UNCHANGED <<scenario, quality, download_subtitles, all_results, offset,
                   api_status, topics, filtered_results, topic, seasons, choice, i,
                   video_url, file_extension, http_status, log, files>>

\* select_topic up to its prompt: with one topic or none it returns at once
SelectTopic ==
    /\ pc = "select_topic"
    /\ LET sorted == TopicsOf(all_results)
       IN  IF Len(sorted) > 1
           THEN /\ pc' = "topic_prompt"
                /\ topics' = sorted
                /\ UNCHANGED <<filtered_results, topic>>
           ELSE /\ pc' = "topic_selected"
                /\ topics' = <<>>
                /\ IF Len(sorted) = 1
                   THEN filtered_results' = all_results /\ topic' = Str(sorted[1])
                   ELSE filtered_results' = <<>> /\ topic' = None
    /\ UNCHANGED <<scenario, quality, download_subtitles, all_results, offset,
                   api_status, seasons, choice, i, video_url, file_extension,
                   http_status, log, files>>

\* [v for v in all_results if v.get("topic") == selected_topic]
FilterByTopic(results, selected_topic) ==
    LET Chosen(v) == v.topic = selected_topic
    IN  SelectSeq(results, Chosen)

\* one iteration of the while loop of select_topic: one line read
TopicPrompt ==
    /\ pc = "topic_prompt"
    /\ \E line \in InputLines :
          /\ choice' = Str(line)
          /\ IF PyInt(line).ok /\ 1 <= PyInt(line).val /\ PyInt(line).val <= Len(topics)
             THEN /\ pc' = "topic_selected"
                  /\ topic' = Str(topics[PyInt(line).val])
                  /\ filtered_results' = FilterByTopic(all_results, Str(topics[PyInt(line).val]))
                  /\ topics' = <<>>
             ELSE /\ pc' = "topic_prompt"
                  /\ UNCHANGED <<topic, filtered_results, topics>>
    /\ UNCHANGED <<scenario, quality, download_subtitles, all_results, offset,
                   api_status, seasons, i, video_url, file_extension,
                   http_status, log, files>>

\* ClassifyTopic with a topic that is no series passed on to the downloads
ClassifyTopic_DownloadSingle ==
    /\ pc = "topic_selected"
    /\ IF filtered_results = <<>>
       THEN pc' = "exit1" /\ UNCHANGED filtered_results
       ELSE IF is_topic_is_series(filtered_results)
       THEN pc' = "select_season" /\ filtered_results' = update_video_type(filtered_results)
       ELSE pc' = "season_selected" /\ filtered_results' = update_video_type(filtered_results)
    /\ all_results' = <<>>
    /\ choice' = None
    /\ UNCHANGED <<scenario, quality, download_subtitles, offset, api_status,
                   topics, topic, seasons, i, video_url, file_extension,
                   http_status, log, files>>

\* search_and_download_all after select_topic: exit(1) without records, the
\* series path, or NotImplementedError.  all_results is not read from here on.
ClassifyTopic ==
    /\ pc = "topic_selected"
    /\ IF filtered_results = <<>>
       THEN pc' = "exit1" /\ UNCHANGED filtered_results
       ELSE IF is_topic_is_series(filtered_results)
       THEN pc' = "select_season" /\ filtered_results' = update_video_type(filtered_results)
       ELSE pc' = "not_implemented" /\ UNCHANGED filtered_results
    /\ all_results' = <<>>
    /\ choice' = None
    /\ UNCHANGED <<scenario, quality, download_subtitles, offset, api_status,
                   topics, topic, seasons, i, video_url, file_extension,
                   http_status, log, files>>

\* select_season up to its prompt
SelectSeason ==
    /\ pc = "select_season"
    /\ LET annotated == determine_season_and_episode(filtered_results)
           results   == sort_seasons_by_season_and_episode(annotated)
           grouped   == GroupBySeason(results, <<>>)
       IN  IF Len(grouped) = 0
           THEN pc' = "season_selected" /\ filtered_results' = <<>> /\ seasons' = <<>>
           ELSE pc' = "season_prompt" /\ filtered_results' = annotated /\ seasons' = grouped
    /\ UNCHANGED <<scenario, quality, download_subtitles, all_results, offset,
                   api_status, topics, topic, choice, i, video_url, file_extension,
                   http_status, log, files>>

\* one iteration of the while loop of select_season: one line read
SeasonPrompt ==
    /\ pc = "season_prompt"
    /\ \E line \in InputLines :
          /\ choice' = Str(line)
          /\ IF line = <<>> \/ Lower(line) = <<"y">>
             THEN /\ pc' = "season_selected"
                  /\ filtered_results' = AllVideos(seasons)
                  /\ seasons' = <<>>
             ELSE IF PyInt(line).ok /\ 1 <= PyInt(line).val /\ PyInt(line).val <= Len(seasons)
             THEN LET keys            == [k \in DOMAIN seasons |-> seasons[k].key]
                      selected_season == SortedSeasonKeys(keys)[PyInt(line).val]
                  IN  /\ pc' = "season_selected"
                      /\ filtered_results' = SeasonVideos(seasons, selected_season)
                      /\ seasons' = <<>>
             ELSE /\ pc' = "exit1"
                  /\ UNCHANGED <<filtered_results, seasons>>
    /\ UNCHANGED <<scenario, quality, download_subtitles, all_results, offset,
                   api_status, topics, topic, i, video_url, file_extension,
                   http_status, log, files>>

\* search_and_download_all after select_season, and the entry of
\* download_all_videos: os.makedirs, which may raise, then the first iteration
StartDownloads ==
    /\ pc = "season_selected"
    /\ IF Len(filtered_results) > 0
       THEN \E made \in MakedirsOutcomes :
               IF made = "raises"
               THEN pc' = "crashed" /\ UNCHANGED i
               ELSE pc' = "download_video" /\ i' = 1
       ELSE pc' = "exit1" /\ UNCHANGED i
    /\ choice' = None
    /\ UNCHANGED <<scenario, quality, download_subtitles, all_results, offset,
                   api_status, topics, filtered_results, topic, seasons, video_url,
                   file_extension, http_status, log, files>>

\* the end of an iteration of the for loop of download_all_videos
NextRecord ==
    /\ i' = i + 1
    /\ pc' = IF i + 1 > Len(filtered_results) THEN "done" ELSE "download_video"

\* the first half of an iteration of download_all_videos: the URL, the file name
\* and download_video.  requests.get raises on a URL that is None or empty, and
\* on status 200 open() raises when the file system refuses the file; nothing
\* catches either.
DownloadVideo ==
    /\ pc = "download_video"
    /\ LET video_info == filtered_results[i]
           resolved   == get_video_url_by_quality(video_info, quality)
           filename   == FilenameBase(topic.s, video_info) \o resolved.ext
           filepath   == PathJoin(DownloadFolder, filename)
       IN  /\ video_url' = resolved.url
           /\ file_extension' = resolved.ext
           /\ IF ~Truthy(resolved.url)
              THEN /\ pc' = "crashed"
                   /\ UNCHANGED <<i, http_status, log, files>>
              ELSE \E status \in {200, 404} :
                      /\ http_status' = status
                      /\ log' = Append(log, [kind |-> "video", record |-> i,
                                             url |-> resolved.url.s, path |-> filepath])
                      /\ \E opened \in OpenOutcomes :
                            IF status = 200 /\ opened = "raises"
                            THEN /\ pc' = "crashed"
                                 /\ UNCHANGED <<i, files>>
                            ELSE /\ files' = IF status = 200 THEN files \cup {filepath} ELSE files
                                 /\ IF download_subtitles /\ Truthy(get_subtitle_url(video_info).url)
                                    THEN pc' = "download_subtitle" /\ UNCHANGED i
                                    ELSE NextRecord
    /\ UNCHANGED <<scenario, quality, download_subtitles, all_results, offset,
                   api_status, topics, filtered_results, topic, seasons, choice>>

\* the second half of an iteration, when subtitles are asked for and the record
\* has a subtitle URL: download_subtitle.  On status 200 open() raises when the
\* file system refuses the file, and nothing catches it.
DownloadSubtitle ==
    /\ pc = "download_subtitle"
    /\ LET video_info == filtered_results[i]
           subtitle   == get_subtitle_url(video_info)
           filepath   == PathJoin(DownloadFolder, FilenameBase(topic.s, video_info) \o subtitle.ext)
       IN  \E status \in {200, 404} :
              /\ http_status' = status
              /\ log' = Append(log, [kind |-> "subtitle", record |-> i,
                                     url |-> subtitle.url.s, path |-> filepath])
              /\ \E opened \in OpenOutcomes :
                    IF status = 200 /\ opened = "raises"
                    THEN /\ pc' = "crashed"
                         /\ UNCHANGED <<i, files>>
                    ELSE /\ files' = IF status = 200 THEN files \cup {filepath} ELSE files
                         /\ NextRecord
    /\ UNCHANGED <<scenario, quality, download_subtitles, all_results, offset,
                   api_status, topics, filtered_results, topic, seasons, choice,
                   video_url, file_extension>>

Next ==
    \/ QueryApiRequest
    \/ CheckResults
    \/ SelectTopic
    \/ TopicPrompt
    \/ ClassifyTopic
    \/ SelectSeason
    \/ SeasonPrompt
    \/ StartDownloads
    \/ DownloadVideo
    \/ DownloadSubtitle

Spec == Init /\ [][Next]_vars

----------------------------------------------------------------------------
(* get_video_url_by_quality on its own: every record of ResolvePool, every tier *)

InitResolve ==
    /\ pc = "resolve"
    /\ scenario = "resolve"
    /\ quality \in {"low", "medium", "hd", "ultra", ""}
    /\ download_subtitles = FALSE
    /\ all_results = <<>>
    /\ api_status = 0
    /\ \E video_info \in ResolvePool : filtered_results = <<video_info>>
    /\ topic = TopicA
    /\ http_status = 0
    /\ log = <<>>
    /\ files = {}
    /\ offset = 0
    /\ topics = <<>>
    /\ seasons = <<>>
    /\ choice = None
    /\ i = 1
    /\ video_url = None
    /\ file_extension = <<>>

ResolveCall ==
    /\ pc = "resolve"
    /\ pc' = "resolved"
    /\ video_url' = get_video_url_by_quality(filtered_results[i], quality).url
    /\ file_extension' = get_video_url_by_quality(filtered_results[i], quality).ext
    /\ UNCHANGED <<scenario, quality, download_subtitles, all_results, offset,
                   api_status, topics, filtered_results, topic, seasons, choice, i,
                   http_status, log, files>>

NextResolve == ResolveCall

SpecResolve == InitResolve /\ [][NextResolve]_vars

----------------------------------------------------------------------------
(* What the properties are stated with *)

\* the title holds a season/episode marker: S, digits, /E, a digit
HasMarker(title) ==
    \E k \in 1..Len(title), j \in 1..Len(title) :
        /\ title[k] = "S"
        /\ j > k
        /\ \A d \in (k + 1)..j : IsDigit(title[d])
        /\ j + 3 <= Len(title)
        /\ title[j + 1] = "/"
        /\ title[j + 2] = "E"
        /\ IsDigit(title[j + 3])

\* u comes before t in lexicographic order
LexBefore(u, t) ==
    \E n \in 1..Len(t) :
        /\ \A k \in 1..(n - 1) : k <= Len(u) /\ u[k] = t[k]
        /\ n > Len(u) \/ (n <= Len(u) /\ Ord(u[n]) < Ord(t[n]))

\* the distinct non-empty topics of the results
DistinctTopics(results) ==
    {r.topic.s : r \in {x \in Range(results) : ~x.topic.isNone /\ x.topic.s # <<>>}}

\* the k-th of a set of strings in lexicographic order
KthTopic(D, k) == CHOOSE t \in D : Cardinality({u \in D : LexBefore(u, t)}) = k - 1

\* the number a season or episode counts as: null as 0
NumberOf(v) == IF v.isNone THEN 0 ELSE DigitsValue(v.s)

\* none of the three tier URLs is present
NoTierUrl(r) ==
    /\ r.url_video_low.isNone \/ r.url_video_low.s = <<>>
    /\ r.url_video.isNone \/ r.url_video.s = <<>>
    /\ r.url_video_hd.isNone \/ r.url_video_hd.s = <<>>

\* the line just read is a 1-based index into a list of n entries
ValidIndex(line, n) == PyInt(line).ok /\ 1 <= PyInt(line).val /\ PyInt(line).val <= n

\* the line just read means "all seasons"
AllSeasonsLine(line) == line = <<>> \/ line = <<"y">> \/ line = <<"Y">>

\* the search API has answered a request with a status other than 200
ApiFailed == api_status # 0 /\ api_status # 200

\* out holds every record of in once: the season groups one after the other in
\* ascending numeric order of the season (null as 0), each group in ascending
\* numeric order of the episode, records of equal season and episode in the
\* order they have in in
GroupsAscending(in, out) ==
    /\ Len(out) = Len(in)
    /\ \A a \in DOMAIN out, b \in DOMAIN out :
          a < b =>
             /\ NumberOf(out[a].season) <= NumberOf(out[b].season)
             /\ out[a].season = out[b].season =>
                   /\ NumberOf(out[a].episode) <= NumberOf(out[b].episode)
                   /\ \A c \in a..b : out[c].season = out[a].season
    /\ \A r \in Range(in) \cup Range(out) :
          LET Like(x) == x.season = r.season
                         /\ NumberOf(x.episode) = NumberOf(r.episode)
          IN  SelectSeq(out, Like) = SelectSeq(in, Like)

\* the records without season come before all others
NullSeasonFirst(out) ==
    \A a \in DOMAIN out, b \in DOMAIN out :
        (a < b /\ out[b].season.isNone) => out[a].season.isNone

\* the record at position a is the first of its season group
FirstOfGroup(out, a) == \A c \in 1..(a - 1) : out[c].season # out[a].season

\* the position at which the record r comes first
FirstIndex(in, r) == CHOOSE k \in DOMAIN in : in[k] = r /\ \A n \in 1..(k - 1) : in[n] # r

\* of two groups whose seasons count as the same number, the one comes first
\* whose first record has the smaller episode number or, at equal episode
\* number, came earlier in in
TiedGroupsByFirstRecord(in, out) ==
    \A a \in DOMAIN out, b \in DOMAIN out :
        (/\ a < b
         /\ FirstOfGroup(out, a) /\ FirstOfGroup(out, b)
         /\ NumberOf(out[a].season) = NumberOf(out[b].season)) =>
            \/ NumberOf(out[a].episode) < NumberOf(out[b].episode)
            \/ /\ NumberOf(out[a].episode) = NumberOf(out[b].episode)
               /\ FirstIndex(in, out[a]) < FirstIndex(in, out[b])

\* download_all_videos is over: it returned, or requests.get raised out of it
\* on the URL of record i
LoopOver ==
    \/ pc = "done"
    \/ pc = "crashed" /\ i >= 1 /\ ~Truthy(video_url)

----------------------------------------------------------------------------
(* C1 *)

\* C1: at the season prompt, a line that is not empty, not "y" or "Y" and not an
\* integer leaves the run at the season prompt.
C1_MalformedSeasonLineReprompts ==
    [][(/\ pc = "season_prompt"
        /\ ~choice'.isNone
        /\ ~AllSeasonsLine(choice'.s)
        /\ ~PyInt(choice'.s).ok) => pc' = "season_prompt"]_vars

----------------------------------------------------------------------------
(* C2 *)

\* C2: when select_topic returns records, each of them has the returned topic.
C2_ReturnedRecordsShareTopic ==
    (pc = "topic_selected" /\ filtered_results # <<>>) =>
        \A k \in DOMAIN filtered_results : filtered_results[k].topic = topic

----------------------------------------------------------------------------
(* C3 *)

\* C3: a selected record without any tier URL does not end the run: after its
\* iteration the run is at the next record, at its subtitle, or done.
C3_UrlLessRecordIsSkipped ==
    [][(/\ pc = "download_video"
        /\ NoTierUrl(filtered_results[i])) =>
            /\ pc' \in {"download_video", "download_subtitle", "done"}
            /\ files' = files]_vars

----------------------------------------------------------------------------
(* C4 *)

\* C4, as claimed: once a search request was answered with a status other than
\* 200, no further request is issued and the run is over before topic selection:
\* it is at the return of query_api or has exited.
C4_ApiErrorAbortsRun ==
    ApiFailed => pc \in {"query_returned", "exit1"}

\* C4, amended: once a search request was answered with a status other than 200,
\* no further request is issued; query_api returns what it had accumulated, and
\* the run exits before topic selection when that is nothing and goes on to
\* topic selection when it is something.
C4_ApiErrorEndsPagination ==
    /\ [](ApiFailed => pc # "query_api")
    /\ [][(pc = "query_api" /\ api_status' # 200) =>
              (pc' = "query_returned" /\ all_results' = all_results)]_vars
    /\ [][(pc = "query_returned" /\ ApiFailed) =>
              (pc' = IF all_results = <<>> THEN "exit1" ELSE "select_topic")]_vars

\* a run that went on to download after a failed search request
C4_Witness ==
    ApiFailed /\ pc = "done" /\ log # <<>>

----------------------------------------------------------------------------
(* C5 *)

\* C5: get_video_url_by_quality returns the URL of the requested tier when it is
\* present, else the first present of hd, medium, low, and no URL only when none
\* is present; a tier other than low, medium, hd counts as medium.
C5_QualityFallback ==
    pc = "resolved" =>
        LET r         == filtered_results[1]
            tier      == IF quality \in {"low", "medium", "hd"} THEN quality ELSE "medium"
            requested == CASE tier = "low"    -> r.url_video_low
                           [] tier = "medium" -> r.url_video
                           [] tier = "hd"     -> r.url_video_hd
            Present(u) == ~u.isNone /\ u.s # <<>>
        IN  IF Present(requested) THEN video_url = requested
            ELSE IF Present(r.url_video_hd) THEN video_url = r.url_video_hd
            ELSE IF Present(r.url_video) THEN video_url = r.url_video
            ELSE IF Present(r.url_video_low) THEN video_url = r.url_video_low
            ELSE ~Present(video_url)

\* an unrecognized tier, no medium URL, no hd URL: the low URL is returned
C5_Witness ==
    /\ pc = "resolved"
    /\ quality = "ultra"
    /\ ~Truthy(filtered_results[1].url_video)
    /\ ~Truthy(filtered_results[1].url_video_hd)
    /\ video_url = UrlLow

----------------------------------------------------------------------------
(* C6 *)

\* C6: with more than one distinct topic, select_topic stays at its prompt on
\* every line that is not an integer from 1 to the number of topics, and on such
\* an integer k returns the k-th topic in lexicographic order with the records
\* of that topic, in their order.
C6_TopicPromptLoop ==
    [][pc = "topic_prompt" =>
          LET D == DistinctTopics(all_results)
              k == PyInt(choice'.s).val
              InTopic(r) == r.topic = Str(KthTopic(D, k))
          IN  /\ Cardinality(D) > 1
              /\ IF ValidIndex(choice'.s, Cardinality(D))
                 THEN /\ pc' = "topic_selected"
                      /\ topic' = Str(KthTopic(D, k))
                      /\ filtered_results' = SelectSeq(all_results, InTopic)
                 ELSE /\ pc' = "topic_prompt"
                      /\ all_results' = all_results]_vars

\* three hits of the topics A, A, B, the user typed 2: B and its one hit
C6_Witness ==
    /\ pc = "topic_selected"
    /\ choice = Str(<<"2">>)
    /\ Len(all_results) = 3
    /\ DistinctTopics(all_results) = {<<"A">>, <<"B">>}
    /\ topic = Str(<<"B">>)
    /\ Len(filtered_results) = 1

----------------------------------------------------------------------------
(* C7 *)

\* C7: a selected topic none of whose titles holds a season/episode marker ends
\* the run in the not-implemented error, and nothing was or will be downloaded.
C7_NonSeriesNotImplemented ==
    /\ [][(/\ pc = "topic_selected"
           /\ filtered_results # <<>>
           /\ \A k \in DOMAIN filtered_results : ~HasMarker(filtered_results[k].title))
              => pc' = "not_implemented"]_vars
    /\ [](pc = "not_implemented" => (log = <<>> /\ files = {}))
    /\ [][pc # "not_implemented"]_vars

\* the run ended in the not-implemented error
C7_Witness ==
    pc = "not_implemented" /\ Len(filtered_results) >= 1

----------------------------------------------------------------------------
(* C8 *)

\* C8: the seasons are listed in ascending numeric order of their keys (null as
\* 0), and a valid 1-based index returns the records of the season listed at
\* that position, and all of them.
C8_SeasonIndex ==
    /\ [](pc = "season_prompt" =>
            \A a \in DOMAIN seasons, b \in DOMAIN seasons :
                a < b => NumberOf(seasons[a].key) <= NumberOf(seasons[b].key))
    /\ [][(/\ pc = "season_prompt"
           /\ ~AllSeasonsLine(choice'.s)
           /\ ValidIndex(choice'.s, Len(seasons))) =>
              LET listed == seasons[PyInt(choice'.s).val]
                  InSeason(r) == r.season = listed.key
              IN  /\ pc' = "season_selected"
                  /\ filtered_results' = listed.videos
                  /\ \A k \in DOMAIN filtered_results' : InSeason(filtered_results'[k])
                  /\ \A r \in Range(filtered_results) :
                        InSeason(r) =>
                            Cardinality({k \in DOMAIN filtered_results' : filtered_results'[k] = r})
                            = Cardinality({k \in DOMAIN filtered_results : filtered_results[k] = r})]_vars

\* the user typed 2 and got the records of the season "02", which was listed
\* second
C8_Witness ==
    /\ pc = "season_selected"
    /\ choice = Str(<<"2">>)
    /\ filtered_results # <<>>
    /\ filtered_results[1].season = Str(<<"0", "2">>)

----------------------------------------------------------------------------
(* C9 *)

\* C9, as claimed: on an empty line, "y" or "Y", select_season returns every
\* record once: the season groups one after the other in ascending numeric order
\* of the season, the records without season first, each group in ascending
\* numeric order of the episode, records of equal season and episode in their
\* original order.
C9_AllSeasonsNullFirst ==
    [][(pc = "season_prompt" /\ AllSeasonsLine(choice'.s)) =>
          /\ pc' = "season_selected"
          /\ GroupsAscending(filtered_results, filtered_results')
          /\ NullSeasonFirst(filtered_results')]_vars

\* C9, amended: on an empty line, "y" or "Y", select_season returns every record
\* once: the season groups one after the other in ascending numeric order of the
\* season with null counted as 0, so that the records without season come before
\* every season of positive number but not always before a season numbered 0;
\* groups of equal number stand in the order of their first records; each group
\* in ascending numeric order of the episode, records of equal season and
\* episode in their original order.
C9_AllSeasons ==
    [][(pc = "season_prompt" /\ AllSeasonsLine(choice'.s)) =>
          /\ pc' = "season_selected"
          /\ GroupsAscending(filtered_results, filtered_results')
          /\ TiedGroupsByFirstRecord(filtered_results, filtered_results')]_vars

\* three records came back on "Y": one of season 0 first, then the one without
\* season, then one of a season of positive number
C9_Witness ==
    /\ pc = "season_selected"
    /\ choice = Str(<<"Y">>)
    /\ Len(filtered_results) = 3
    /\ filtered_results[1].season = Str(<<"0">>)
    /\ filtered_results[2].season = None
    /\ NumberOf(filtered_results[3].season) > 0

----------------------------------------------------------------------------
(* C10 *)

\* C10: when download_all_videos is over, it has issued one video request per
\* selected record, in their order, and each subtitle request right after the
\* video request of its record.  A run that the file system ended (os.makedirs
\* or open() raised) is not counted.
C10_OneVideoRequestPerRecord ==
    LoopOver =>
        LET IsVideo(e) == e.kind = "video"
            requests   == SelectSeq(log, IsVideo)
        IN  /\ Len(requests) = Len(filtered_results)
            /\ \A k \in DOMAIN requests : requests[k].record = k
            /\ \A k \in DOMAIN log :
                  log[k].kind = "subtitle" =>
                      k > 1 /\ log[k - 1].kind = "video" /\ log[k - 1].record = log[k].record

====
